---- MODULE Spec2Model ----
(***************************************************************************)
(* ProfitFlow (src/app.py): a Flask + SQLAlchemy bookkeeping application.  *)
(* The model covers the three ledgers (compras, vendas, boletos), the      *)
(* singleton Config row, the request handlers that mutate them and the     *)
(* profit calculation used by the dashboard.                               *)
(*                                                                         *)
(* Text submitted in a form is a sequence of one-character strings, so     *)
(* that stripping, parsing and pattern matching are computed the way the   *)
(* code computes them.  A form field that is absent from the request and   *)
(* one that is the empty string are both the empty sequence: every handler *)
(* reads a field as `request.form.get(name) or default`.                   *)
(***************************************************************************)
EXTENDS Integers, Sequences, FiniteSets, TLC

\* Bound on the number of rows ever inserted (the value of the clock).
MaxClock == 2

\* Bound on the revenue drawn when calc_taxas is exercised on its own.
MaxReceita == 400

\* Bound on the number of concurrent requests on a fresh database.
MaxProcs == 2

(***************************************************************************)
(* Python values                                                           *)
(***************************************************************************)
\* Python's None, for the nullable columns (a present value x is <<x>>,
\* a present date is the date tuple itself).
None == <<>>

Some(x) == <<x>>

Digits == <<"0", "1", "2", "3", "4", "5", "6", "7", "8", "9">>

\* the value of each decimal digit
DigitValue == [c \in {Digits[i] : i \in 1..10} |->
                 (CHOOSE i \in 1..10 : Digits[i] = c) - 1]

IsDigit(c) == c \in DOMAIN DigitValue

DigitVal(c) == DigitValue[c]

UpperCase == <<"A", "B", "C", "D", "E", "F", "G", "H", "I", "J", "K", "L", "M",
               "N", "O", "P", "Q", "R", "S", "T", "U", "V", "W", "X", "Y", "Z">>

LowerCase == <<"a", "b", "c", "d", "e", "f", "g", "h", "i", "j", "k", "l", "m",
               "n", "o", "p", "q", "r", "s", "t", "u", "v", "w", "x", "y", "z">>

\* the lower-case letter of each upper-case ASCII letter
ToLower == [c \in {UpperCase[i] : i \in 1..26} |->
              LowerCase[CHOOSE i \in 1..26 : UpperCase[i] = c]]

\* str.lower() on one character (ASCII letters, as SQLite's lower())
LowerChar(c) == IF c \in DOMAIN ToLower THEN ToLower[c] ELSE c

Lower(s) == [i \in 1..Len(s) |-> LowerChar(s[i])]

IsSpace(c) == c \in {" ", "\t", "\n"}

RECURSIVE LStrip(_)
LStrip(s) ==
  IF s # <<>> /\ IsSpace(Head(s)) THEN LStrip(Tail(s)) ELSE s

RECURSIVE RStrip(_)
RStrip(s) ==
  IF s # <<>> /\ IsSpace(s[Len(s)]) THEN RStrip(SubSeq(s, 1, Len(s) - 1)) ELSE s

\* str.strip()
Strip(s) == RStrip(LStrip(s))

\* str.count(c) for a one-character c
Count(s, c) == Cardinality({i \in 1..Len(s) : s[i] = c})

\* str.replace(c, '') for a one-character c
RemoveChar(s, c) == SelectSeq(s, LAMBDA x : x # c)

\* str.replace(a, b) for one-character a and b
ReplaceChar(s, a, b) == [i \in 1..Len(s) |-> IF s[i] = a THEN b ELSE s[i]]

\* str.replace('R$', ''): every non-overlapping occurrence, left to right
RECURSIVE RemoveCurrency(_)
RemoveCurrency(s) ==
  IF Len(s) < 2 THEN s
  ELSE IF s[1] = "R" /\ s[2] = "$" THEN RemoveCurrency(SubSeq(s, 3, Len(s)))
  ELSE <<Head(s)>> \o RemoveCurrency(Tail(s))

AllDigits(s) == \A i \in 1..Len(s) : IsDigit(s[i])

\* value of a sequence of decimal digits (0 for the empty sequence)
RECURSIVE DigitsVal(_)
DigitsVal(s) ==
  IF s = <<>> THEN 0
  ELSE DigitsVal(SubSeq(s, 1, Len(s) - 1)) * 10 + DigitVal(s[Len(s)])

HasSign(s) == s # <<>> /\ Head(s) \in {"+", "-"}

Unsigned(s) == IF HasSign(s) THEN Tail(s) ELSE s

SignOf(s) == IF s # <<>> /\ Head(s) = "-" THEN -1 ELSE 1

(***************************************************************************)
(* Parsing (src/app.py "Utilitarios")                                      *)
(***************************************************************************)
\* decimal.Decimal(s) accepts [sign] digits [. digits] with at least one
\* digit ("finite"), and [sign] followed by inf, infinity, nan or snan in any
\* letter case ("special"); anything else raises InvalidOperation
\* ("invalid").  Exponent notation and digit-group underscores are not part
\* of the modelled input alphabet.
DecimalKind(s) ==
  LET u == Unsigned(s)
      d == RemoveChar(u, ".")
  IN  IF Count(u, ".") <= 1 /\ d # <<>> /\ AllDigits(d) THEN "finite"
      ELSE IF Lower(u) \in {<<"i", "n", "f">>, <<"n", "a", "n">>,
                            <<"s", "n", "a", "n">>,
                            <<"i", "n", "f", "i", "n", "i", "t", "y">>}
        THEN "special"
      ELSE "invalid"

\* int(Decimal(s) * 100) for a "finite" s: exact decimal arithmetic, then
\* truncation toward zero.
DecimalTimes100(s) ==
  LET u == Unsigned(s)
      dot == IF Count(u, ".") = 0 THEN Len(u) + 1
             ELSE CHOOSE i \in 1..Len(u) : u[i] = "."
      ip == SubSeq(u, 1, dot - 1)
      fp == SubSeq(u, dot + 1, Len(u)) \o <<"0", "0">>
  IN  SignOf(s) * (DigitsVal(ip) * 100 + DigitsVal(SubSeq(fp, 1, 2)))

\* The string parse_valor_to_centavos hands to Decimal().
NormalizeValor(s) ==
  LET t == RemoveChar(RemoveCurrency(Strip(s)), " ")
  IN  IF Count(t, ",") = 1 /\ Count(t, ".") >= 1
        THEN ReplaceChar(RemoveChar(t, "."), ",", ".")
        ELSE ReplaceChar(t, ",", ".")

\* parse_valor_to_centavos raises when Decimal() parsed an infinity or a
\* NaN: int() of it is an OverflowError / ValueError outside the try block.
ParseValorRaises(s) == DecimalKind(NormalizeValor(s)) = "special"

parse_valor_to_centavos(s) ==
  LET t == NormalizeValor(s)
  IN  IF DecimalKind(t) = "finite" THEN DecimalTimes100(t) ELSE 0

\* int(s) on a string: surrounding whitespace, an optional sign, digits.
IntRaises(s) ==
  LET u == Unsigned(Strip(s))
  IN  u = <<>> \/ ~AllDigits(u)

IntOf(s) == SignOf(Strip(s)) * DigitsVal(Unsigned(Strip(s)))

\* int(request.form.get('quantidade') or 1)
QuantidadeRaises(s) == s # <<>> /\ IntRaises(s)

QuantidadeOf(s) == IF s = <<>> THEN 1 ELSE IntOf(s)

\* parse_percent: float() of the string without '%' and with ',' as '.'.
\* The model carries whole-number percentages: the operator is used on
\* strings whose fractional part, if any, is zero; a string float() rejects
\* gives 0.0.
parse_percent(s) ==
  LET t == ReplaceChar(RemoveChar(Strip(s), "%"), ",", ".")
  IN  IF DecimalKind(t) = "finite" THEN DecimalTimes100(t) \div 100 ELSE 0

(***************************************************************************)
(* Dates: <<year, month, day>>                                             *)
(***************************************************************************)
IsLeap(y) == (y % 4 = 0 /\ y % 100 # 0) \/ y % 400 = 0

DaysInMonth(y, m) ==
  IF m = 2 THEN (IF IsLeap(y) THEN 29 ELSE 28)
  ELSE IF m \in {4, 6, 9, 11} THEN 30 ELSE 31

\* the text before the first '-' and the text after it
BeforeDash(s) ==
  IF Count(s, "-") = 0 THEN s
  ELSE SubSeq(s, 1, (CHOOSE i \in 1..Len(s) :
                       s[i] = "-" /\ \A j \in 1..(i - 1) : s[j] # "-") - 1)

AfterDash(s) == SubSeq(s, Len(BeforeDash(s)) + 2, Len(s))

\* datetime.strptime(s, '%Y-%m-%d').date(); None when it raises ValueError.
\* %Y is four digits, %m and %d one or two digits, and the date must exist.
strptime(s) ==
  LET ys == BeforeDash(s)
      ms == BeforeDash(AfterDash(s))
      ds == AfterDash(AfterDash(s))
      y == DigitsVal(ys)
      m == DigitsVal(ms)
      d == DigitsVal(ds)
  IN  IF /\ Count(s, "-") = 2
         /\ Len(ys) = 4 /\ AllDigits(ys) /\ y >= 1
         /\ Len(ms) \in {1, 2} /\ AllDigits(ms) /\ m \in 1..12
         /\ Len(ds) \in {1, 2} /\ AllDigits(ds) /\ d >= 1
         /\ d <= DaysInMonth(y, m)
        THEN <<y, m, d>>
        ELSE None

\* n as decimal digits, zero-padded to width w (f"{n:0wd}")
RECURSIVE ZeroPad(_, _)
ZeroPad(n, w) ==
  IF w = 0 THEN <<>> ELSE ZeroPad(n \div 10, w - 1) \o <<Digits[(n % 10) + 1]>>

\* date.isoformat()
isoformat(d) == ZeroPad(d[1], 4) \o <<"-">> \o ZeroPad(d[2], 2) \o <<"-">> \o ZeroPad(d[3], 2)

\* date.today(), the same day throughout a run
Today == <<2024, 3, 10>>

\* d1 < d2 on dates
DateLess(d1, d2) ==
  \/ d1[1] < d2[1]
  \/ d1[1] = d2[1] /\ d1[2] < d2[2]
  \/ d1[1] = d2[1] /\ d1[2] = d2[2] /\ d1[3] < d2[3]

(***************************************************************************)
(* Binary floating point: int(round(receita * (percent / 100.0)))          *)
(*                                                                         *)
(* percent is a whole number p with 0 < |p| < 200 and receita an integer   *)
(* R.  x = p / 100.0 is the double nearest to p/100: x = M / 2^e with      *)
(* M = round(p * 2^e / 100) in [2^52, 2^53), so x = p/100 + r / (100*2^e)  *)
(* where r = 100*M - p*2^e is the representation error, |r| < 50.          *)
(* R * x is the double nearest to R*p/100 + R*r/(100*2^e).  When R*p/100   *)
(* is not half-way between two integers it is at least 1/100 away from a   *)
(* half, which the error (below 2^-20) cannot bridge: round() gives the    *)
(* nearest integer.  When R*p/100 = k + 1/2, the product is exactly k+1/2  *)
(* if the error is at most half the spacing of the doubles around k+1/2    *)
(* (round() then takes the even neighbour); otherwise it is a double just  *)
(* above or below k+1/2, on the side of the sign of r.                     *)
(***************************************************************************)
Abs(n) == IF n < 0 THEN -n ELSE n

Sign(n) == IF n < 0 THEN -1 ELSE 1

RECURSIVE Pow2(_)
Pow2(n) == IF n = 0 THEN 1 ELSE 2 * Pow2(n - 1)

\* 2^n modulo 100
RECURSIVE Pow2Mod100(_)
Pow2Mod100(n) == IF n = 0 THEN 1 ELSE (2 * Pow2Mod100(n - 1)) % 100

\* the largest e with 2^e <= n, for n >= 1
RECURSIVE Log2Floor(_)
Log2Floor(n) == IF n < 2 THEN 0 ELSE 1 + Log2Floor(n \div 2)

\* the least n >= 0 with p * 2^n >= 100, for 1 <= p < 200:
\* 2^-n <= p/100 < 2^(1-n)
RECURSIVE ScaleOf(_)
ScaleOf(p) == IF p >= 100 THEN 0 ELSE 1 + ScaleOf(2 * p)

\* 100*M - p*2^(52+n): the error of p / 100.0, in units of 1/(100*2^(52+n)),
\* for each whole percentage 1 <= p < 200
ReprErrorOf == [p \in 1..199 |->
  LET t == (p * Pow2Mod100(52 + ScaleOf(p))) % 100
  IN  IF t = 0 THEN 0 ELSE IF t < 50 THEN -t ELSE 100 - t]

ReprError(p) == ReprErrorOf[p]

\* round() of a double: to the nearest integer, an exact half to even
RoundHalfEven(num, den) ==
  LET q == num \div den
      twice == 2 * (num % den)
  IN  IF twice < den THEN q
      ELSE IF twice > den THEN q + 1
      ELSE IF q % 2 = 0 THEN q ELSE q + 1

\* int(round(R * (p / 100.0))) for R >= 0 and 1 <= p < 200
FloatMulRoundPos(R, p) ==
  LET N == R * p
      k == N \div 100
      r == ReprError(p)
      \* exponent of k + 1/2 minus exponent of p/100
      g == (Log2Floor(2 * k + 1) - 1) + ScaleOf(p)
      spacing == IF r < 0 /\ k = 0 THEN 4 ELSE 2
      exact == spacing * Abs(R * r) <= 100 * Pow2(g)
  IN  IF N % 100 # 50 THEN RoundHalfEven(N, 100)
      ELSE IF exact THEN RoundHalfEven(N, 100)
      ELSE IF r > 0 THEN k + 1 ELSE k

\* int(round(R * (p / 100.0))): multiplication and rounding are symmetric
\* in the sign
FloatMulRound(R, p) ==
  IF R = 0 \/ p = 0 THEN 0
  ELSE Sign(R) * Sign(p) * FloatMulRoundPos(Abs(R), Abs(p))

(***************************************************************************)
(* Formatting                                                              *)
(***************************************************************************)
\* str(n) for n >= 0
RECURSIVE NatStr(_)
NatStr(n) ==
  IF n < 10 THEN <<Digits[n + 1]>>
  ELSE NatStr(n \div 10) \o <<Digits[(n % 10) + 1]>>

\* str(n)
IntStr(n) == IF n < 0 THEN <<"-">> \o NatStr(-n) ELSE NatStr(n)

\* f"{n:,}" for n >= 0: groups of three digits separated by commas
RECURSIVE GroupThousands(_)
GroupThousands(n) ==
  IF n < 1000 THEN NatStr(n)
  ELSE GroupThousands(n \div 1000) \o <<",">> \o ZeroPad(n % 1000, 3)

\* the template filter moeda: every comma of the formatted text, the one
\* before the cents included, goes to X and then to a full stop
moeda(centavos) ==
  LET sign == IF centavos < 0 THEN <<"-">> ELSE <<>>
      reais == Abs(centavos) \div 100
      c == Abs(centavos) % 100
      text == sign \o <<"R", "$", " ">> \o GroupThousands(reais)
                   \o <<",">> \o ZeroPad(c, 2)
  IN  ReplaceChar(ReplaceChar(ReplaceChar(text, ",", "X"), ".", ","), "X", ".")

\* the template filter format_valor applied to cent/100, as every template
\* calls it: f"{v:,.2f}" writes the integer part in groups of three
\* separated by commas, a full stop and two decimals; the replace chain
\* then swaps commas and full stops
format_valor(cent) ==
  LET sign == IF cent < 0 THEN <<"-">> ELSE <<>>
      text == sign \o GroupThousands(Abs(cent) \div 100) \o <<".">>
                   \o ZeroPad(Abs(cent) % 100, 2)
  IN  ReplaceChar(ReplaceChar(ReplaceChar(text, ",", "X"), ".", ","), "X", ".")

\* d.strftime('%Y-%m-%m'): the year, the month and the month again
strftime_Y_m_m(d) ==
  ZeroPad(d[1], 4) \o <<"-">> \o ZeroPad(d[2], 2) \o <<"-">> \o ZeroPad(d[2], 2)

(***************************************************************************)
(* State: the four tables, the clock and what the last request returned    *)
(***************************************************************************)
VARIABLES
  compras,   \* table compras: id -> row
  vendas,    \* table vendas: id -> row
  boletos,   \* table boletos: id -> row
  config,    \* table config: id -> row
  clock,     \* datetime.utcnow(), counted in inserts
  resp,      \* the last response: handler, row id, HTTP status and, for
             \* /dashboard, the context handed to the template
  ret,       \* the last direct evaluation of calc_taxas
  procs      \* the requests that are inside _get_config() or past it:
             \* where each is and the Config object it holds

vars == <<compras, vendas, boletos, config, clock, resp, ret, procs>>

\* request.form.get(name) or default
OrDefault(s, d) == IF s = <<>> THEN d ELSE s

ABERTO == <<"a", "b", "e", "r", "t", "o">>

PAGO == <<"p", "a", "g", "o">>

CANCELADO == <<"c", "a", "n", "c", "e", "l", "a", "d", "o">>

\* the id SQLite gives a new row of an INTEGER PRIMARY KEY table
NewId(table) ==
  IF DOMAIN table = {} THEN 1
  ELSE 1 + CHOOSE i \in DOMAIN table : \A j \in DOMAIN table : j <= i

Insert(table, row) == [i \in DOMAIN table \cup {NewId(table)} |->
                         IF i \in DOMAIN table THEN table[i] ELSE row]

Delete(table, id) == [i \in DOMAIN table \ {id} |-> table[i]]

\* the template context of a response that is not the dashboard's
NoDash == [mes |-> <<>>, linhas |-> <<>>, tot_receita |-> 0, tot_taxas |-> 0,
           tot_custo |-> 0, tot_lucro |-> 0]

\* rows: the objects handed to a list template, in order; body: the text
\* of a CSV response; linha: the values _venda_row.html computes, when the
\* response is that template rendered for one sale; form: the values of the
\* inputs of _venda_edit_row.html, when the response is that template
Response(op, id, status) ==
  [op |-> op, id |-> id, status |-> status, dash |-> NoDash,
   rows |-> <<>>, body |-> <<>>, linha |-> None, form |-> None]

(***************************************************************************)
(* Queries                                                                 *)
(***************************************************************************)
\* SQL LIKE on lower-cased operands: % matches any run of characters and
\* _ any one character; no escape character is set
RECURSIVE Like(_, _)
Like(s, p) ==
  IF p = <<>> THEN s = <<>>
  ELSE IF Head(p) = "%"
    THEN Like(s, Tail(p)) \/ (s # <<>> /\ Like(Tail(s), p))
  ELSE IF Head(p) = "_"
    THEN s # <<>> /\ Like(Tail(s), Tail(p))
  ELSE s # <<>> /\ Head(s) = Head(p) /\ Like(Tail(s), Tail(p))

\* column.ilike(pattern): lower(column) LIKE lower(pattern)
ilike(value, pattern) == Like(Lower(value), Lower(pattern))

\* ORDER BY data DESC, created_at DESC: row a comes before row b
OrderedBefore(a, b) ==
  \/ DateLess(b.data, a.data)
  \/ a.data = b.data /\ a.created_at > b.created_at

\* the ids of a table in ORDER BY data DESC, created_at DESC
RECURSIVE OrderByDataDesc(_, _)
OrderByDataDesc(table, ids) ==
  IF ids = {} THEN <<>>
  ELSE LET first == CHOOSE i \in ids :
                      \A j \in ids \ {i} : OrderedBefore(table[i], table[j])
       IN  <<first>> \o OrderByDataDesc(table, ids \ {first})

\* the ids of a table in ORDER BY created_at DESC
RECURSIVE OrderByCreatedDesc(_, _)
OrderByCreatedDesc(table, ids) ==
  IF ids = {} THEN <<>>
  ELSE LET first == CHOOSE i \in ids :
                      \A j \in ids \ {i} :
                        table[i].created_at > table[j].created_at
       IN  <<first>> \o OrderByCreatedDesc(table, ids \ {first})

\* the objects of the rows order of a table
Objects(table, order) ==
  [k \in 1..Len(order) |-> [id |-> order[k]] @@ table[order[k]]]

latest_compra_custo(produto) ==
  LET matching == {i \in DOMAIN compras : ilike(compras[i].produto, produto)}
  IN  IF matching = {} THEN 0
      ELSE compras[OrderByDataDesc(compras, matching)[1]].custo_unitario_cent

DefaultConfig == [marketplace_percent |-> 20, imposto_percent |-> 8,
                  taxa_fixa_cent |-> 400]

\* the table config after _get_config(): row 1 is inserted when absent
get_config_table(table) ==
  IF 1 \in DOMAIN table THEN table
  ELSE [i \in DOMAIN table \cup {1} |-> IF i = 1 THEN DefaultConfig ELSE table[i]]

\* the row _get_config() returns
get_config == get_config_table(config)[1]

calc_taxas(receita_cent) ==
  LET cfg == get_config
      mk == FloatMulRound(receita_cent, cfg.marketplace_percent)
      imp == FloatMulRound(receita_cent, cfg.imposto_percent)
  IN  mk + imp

custo_para_venda(venda) ==
  IF venda.custo_unitario_override_cent # None
    THEN venda.custo_unitario_override_cent[1]
    ELSE latest_compra_custo(venda.produto)

(***************************************************************************)
(* Dashboard                                                               *)
(***************************************************************************)
\* month_bounds raises ValueError unless ym is two integers around one '-'
\* that date(y, m, 1) accepts
MonthBoundsRaises(ym) ==
  \/ Count(ym, "-") # 1
  \/ IntRaises(BeforeDash(ym))
  \/ IntRaises(AfterDash(ym))
  \/ IntOf(BeforeDash(ym)) \notin 1..9999
  \/ IntOf(AfterDash(ym)) \notin 1..12

\* month_bounds with the end of December left in the same year
month_bounds_same_year(ym) ==
  LET s == IF ym = <<>> THEN SubSeq(isoformat(Today), 1, 7) ELSE ym
      y == IntOf(BeforeDash(s))
      m == IntOf(AfterDash(s))
  IN  <<(<<y, m, 1>>), (IF m = 12 THEN <<y, 1, 1>> ELSE <<y, m + 1, 1>>)>>

\* <<start, end>>; an empty ym is the current month
month_bounds(ym) ==
  LET s == IF ym = <<>> THEN SubSeq(isoformat(Today), 1, 7) ELSE ym
      y == IntOf(BeforeDash(s))
      m == IntOf(AfterDash(s))
  IN  <<(<<y, m, 1>>), (IF m = 12 THEN <<y + 1, 1, 1>> ELSE <<y, m + 1, 1>>)>>

\* the Venda object of row id
VendaObj(id) == [id |-> id] @@ vendas[id]

\* LoopBody with the profit clamped at zero
LoopBodyClamped(acc, id) ==
  LET v == vendas[id]
      cfg == get_config
      receita == v.preco_unitario_cent * v.quantidade
      custo_u == custo_para_venda(v)
      custo == custo_u * v.quantidade
      taxas == calc_taxas(receita) + (cfg.taxa_fixa_cent * v.quantidade)
      lucro == IF receita - taxas - custo < 0 THEN 0 ELSE receita - taxas - custo
  IN  [mes |-> acc.mes,
       linhas |-> Append(acc.linhas,
                    [venda |-> VendaObj(id),
                     preco_unitario |-> v.preco_unitario_cent,
                     receita |-> receita, custo |-> custo_u,
                     taxas |-> taxas, lucro |-> lucro]),
       tot_receita |-> acc.tot_receita + receita,
       tot_taxas |-> acc.tot_taxas + taxas,
       tot_custo |-> acc.tot_custo + custo,
       tot_lucro |-> acc.tot_lucro + lucro]

\* One iteration of dashboard()'s loop, for venda id: acc holds linhas and
\* the four totals before the iteration, the result holds them after it.
LoopBody(acc, id) ==
  LET v == vendas[id]
      cfg == get_config
      receita == v.preco_unitario_cent * v.quantidade
      custo_u == custo_para_venda(v)
      custo == custo_u * v.quantidade
      taxas == calc_taxas(receita) + (cfg.taxa_fixa_cent * v.quantidade)
      lucro == receita - taxas - custo
  IN  [mes |-> acc.mes,
       linhas |-> Append(acc.linhas,
                    [venda |-> VendaObj(id),
                     preco_unitario |-> v.preco_unitario_cent,
                     receita |-> receita, custo |-> custo_u,
                     taxas |-> taxas, lucro |-> lucro]),
       tot_receita |-> acc.tot_receita + receita,
       tot_taxas |-> acc.tot_taxas + taxas,
       tot_custo |-> acc.tot_custo + custo,
       tot_lucro |-> acc.tot_lucro + lucro]

\* for v in vendas: ...
RECURSIVE Loop(_, _)
Loop(acc, order) ==
  IF order = <<>> THEN acc
  ELSE Loop(LoopBody(acc, Head(order)), Tail(order))

\* GET /dashboard?m=ym
dashboard(ym) ==
  LET bad == ym # <<>> /\ MonthBoundsRaises(ym)
      b == month_bounds(ym)
      ids == {i \in DOMAIN vendas :
                /\ ~DateLess(vendas[i].data, b[1])
                /\ DateLess(vendas[i].data, b[2])}
      order == OrderByDataDesc(vendas, ids)
  IN  IF bad
        THEN /\ resp' = Response("dashboard", 0, 500)
             /\ UNCHANGED <<compras, vendas, boletos, config, clock, ret, procs>>
        ELSE /\ resp' = [Response("dashboard", 0, 200) EXCEPT !.dash =
                           Loop([NoDash EXCEPT !.mes = b[1]], order)]
             /\ config' = get_config_table(config)
             /\ UNCHANGED <<compras, vendas, boletos, clock, ret, procs>>

(***************************************************************************)
(* Compras                                                                 *)
(***************************************************************************)
\* POST /compras; hx is the presence of the HX-Request header
create_compra(f, hx) ==
  LET prod == Strip(f.produto)
      custo == OrDefault(f.custo, <<"0">>)
      d == OrDefault(f.data, isoformat(Today))
      parsed == strptime(d)
      data == IF parsed = None THEN Today ELSE parsed
      c == [produto |-> prod,
            custo_unitario_cent |-> parse_valor_to_centavos(custo),
            quantidade |-> QuantidadeOf(f.quantidade),
            data |-> data, created_at |-> clock]
  IN  /\ clock < MaxClock
      /\ IF QuantidadeRaises(f.quantidade)
           THEN /\ resp' = Response("create_compra", 0, 500)
                /\ UNCHANGED <<compras, clock>>
         ELSE IF prod = <<>>
           THEN /\ resp' = Response("create_compra", 0, 400)
                /\ UNCHANGED <<compras, clock>>
         ELSE IF ParseValorRaises(custo)
           THEN /\ resp' = Response("create_compra", 0, 500)
                /\ UNCHANGED <<compras, clock>>
         ELSE /\ compras' = Insert(compras, c)
              /\ clock' = clock + 1
              /\ resp' = Response("create_compra", NewId(compras),
                                  IF hx THEN 200 ELSE 302)
      /\ UNCHANGED <<vendas, boletos, config, ret, procs>>

\* POST /compras/<id>/update
update_compra(id, f) ==
  LET custo == OrDefault(f.custo, <<"0">>)
      c == compras[id]
      parsed == strptime(f.data)
      data == IF f.data # <<>> /\ parsed # None THEN parsed ELSE c.data
  IN  /\ IF id \notin DOMAIN compras
           THEN /\ resp' = Response("update_compra", id, 404)
                /\ UNCHANGED compras
         ELSE IF ParseValorRaises(custo) \/ QuantidadeRaises(f.quantidade)
           THEN /\ resp' = Response("update_compra", id, 500)
                /\ UNCHANGED compras
         ELSE /\ compras' = [compras EXCEPT ![id] =
                   [produto |-> Strip(f.produto),
                    custo_unitario_cent |-> parse_valor_to_centavos(custo),
                    quantidade |-> QuantidadeOf(f.quantidade),
                    data |-> data, created_at |-> c.created_at]]
              /\ resp' = Response("update_compra", id, 200)
      /\ UNCHANGED <<vendas, boletos, config, clock, ret, procs>>

\* DELETE /compras/<id>
delete_compra(id) ==
  /\ IF id \notin DOMAIN compras
       THEN /\ resp' = Response("delete_compra", id, 404)
            /\ UNCHANGED compras
       ELSE /\ compras' = Delete(compras, id)
            /\ resp' = Response("delete_compra", id, 204)
  /\ UNCHANGED <<vendas, boletos, config, clock, ret, procs>>

(***************************************************************************)
(* Vendas                                                                  *)
(***************************************************************************)
\* POST /vendas
create_venda(f, hx) ==
  LET prod == Strip(f.produto)
      preco == OrDefault(f.preco, <<"0">>)
      d == OrDefault(f.data, isoformat(Today))
      custo == f.custo
      parsed == strptime(d)
      data == IF parsed = None THEN Today ELSE parsed
      v == [produto |-> prod,
            preco_unitario_cent |-> parse_valor_to_centavos(preco),
            quantidade |-> QuantidadeOf(f.quantidade),
            data |-> data,
            custo_unitario_override_cent |->
              IF custo # <<>> THEN Some(parse_valor_to_centavos(custo))
              ELSE None,
            created_at |-> clock]
  IN  /\ clock < MaxClock
      /\ IF QuantidadeRaises(f.quantidade)
           THEN /\ resp' = Response("create_venda", 0, 500)
                /\ UNCHANGED <<vendas, clock, config>>
         ELSE IF prod = <<>>
           THEN /\ resp' = Response("create_venda", 0, 400)
                /\ UNCHANGED <<vendas, clock, config>>
         ELSE IF ParseValorRaises(preco) \/ (custo # <<>> /\ ParseValorRaises(custo))
           THEN /\ resp' = Response("create_venda", 0, 500)
                /\ UNCHANGED <<vendas, clock, config>>
         ELSE /\ vendas' = Insert(vendas, v)
              /\ clock' = clock + 1
              /\ config' = IF hx THEN get_config_table(config) ELSE config
              /\ resp' = Response("create_venda", NewId(vendas),
                                  IF hx THEN 200 ELSE 302)
      /\ UNCHANGED <<compras, boletos, ret, procs>>

\* POST /vendas/<id>/update
update_venda(id, f) ==
  LET preco == OrDefault(f.preco, <<"0">>)
      custo == f.custo
      v == vendas[id]
      parsed == strptime(f.data)
      data == IF f.data # <<>> /\ parsed # None THEN parsed ELSE v.data
  IN  /\ IF id \notin DOMAIN vendas
           THEN /\ resp' = Response("update_venda", id, 404)
                /\ UNCHANGED <<vendas, config>>
         ELSE IF \/ ParseValorRaises(preco)
                 \/ QuantidadeRaises(f.quantidade)
                 \/ (custo # <<>> /\ ParseValorRaises(custo))
           THEN /\ resp' = Response("update_venda", id, 500)
                /\ UNCHANGED <<vendas, config>>
         ELSE /\ vendas' = [vendas EXCEPT ![id] =
                   [produto |-> Strip(f.produto),
                    preco_unitario_cent |-> parse_valor_to_centavos(preco),
                    quantidade |-> QuantidadeOf(f.quantidade),
                    data |-> data,
                    custo_unitario_override_cent |->
                      IF custo # <<>> THEN Some(parse_valor_to_centavos(custo))
                      ELSE None,
                    created_at |-> v.created_at]]
              /\ config' = get_config_table(config)
              /\ resp' = Response("update_venda", id, 200)
      /\ UNCHANGED <<compras, boletos, clock, ret, procs>>

\* the values _venda_edit_row.html gives the inputs of the form for sale v
venda_edit_row_html(v) ==
  [produto |-> v.produto,
   preco |-> format_valor(v.preco_unitario_cent),
   quantidade |-> IntStr(v.quantidade),
   data |-> strftime_Y_m_m(v.data),
   custo |-> format_valor(IF v.custo_unitario_override_cent = None THEN 0
                          ELSE v.custo_unitario_override_cent[1])]

\* GET /vendas/<id>/edit
edit_venda(id) ==
  /\ resp' = IF id \notin DOMAIN vendas
               THEN Response("edit_venda", id, 404)
               ELSE [Response("edit_venda", id, 200) EXCEPT !.form =
                       Some(venda_edit_row_html(vendas[id]))]
  /\ UNCHANGED <<compras, vendas, boletos, config, clock, ret, procs>>

\* the form of _venda_edit_row.html posted as it was rendered (hx-post to
\* update_venda with the id of the row)
submit_venda_edit_row ==
  /\ resp.op = "edit_venda"
  /\ resp.status = 200
  /\ update_venda(resp.id, resp.form[1])

\* DELETE /vendas/<id>
delete_venda(id) ==
  /\ IF id \notin DOMAIN vendas
       THEN /\ resp' = Response("delete_venda", id, 404)
            /\ UNCHANGED vendas
       ELSE /\ vendas' = Delete(vendas, id)
            /\ resp' = Response("delete_venda", id, 204)
  /\ UNCHANGED <<compras, boletos, config, clock, ret, procs>>

(***************************************************************************)
(* Boletos                                                                 *)
(***************************************************************************)
\* POST /boletos
create_boleto(f, hx) ==
  LET desc == Strip(f.descricao)
      valor == OrDefault(f.valor, <<"0">>)
      venc == f.vencimento
      status == Strip(OrDefault(f.status, ABERTO))
      b == [descricao |-> desc,
            valor_centavos |-> parse_valor_to_centavos(valor),
            vencimento |-> IF venc # <<>> THEN strptime(venc) ELSE None,
            status |-> status, created_at |-> clock]
  IN  /\ clock < MaxClock
      /\ IF desc = <<>>
           THEN /\ resp' = Response("create_boleto", 0, 400)
                /\ UNCHANGED <<boletos, clock>>
         ELSE IF ParseValorRaises(valor)
           THEN /\ resp' = Response("create_boleto", 0, 500)
                /\ UNCHANGED <<boletos, clock>>
         ELSE /\ boletos' = Insert(boletos, b)
              /\ clock' = clock + 1
              /\ resp' = Response("create_boleto", NewId(boletos),
                                  IF hx THEN 200 ELSE 302)
      /\ UNCHANGED <<compras, vendas, config, ret, procs>>

\* update_boleto keeping the due date when none is submitted, as
\* update_compra keeps the date
update_boleto_keeps_vencimento(id, f) ==
  LET desc == Strip(f.descricao)
      valor == OrDefault(f.valor, <<"0">>)
      venc == f.vencimento
      status == Strip(OrDefault(f.status, ABERTO))
  IN  /\ IF id \notin DOMAIN boletos
           THEN /\ resp' = Response("update_boleto", id, 404)
                /\ UNCHANGED boletos
         ELSE IF desc = <<>>
           THEN /\ resp' = Response("update_boleto", id, 400)
                /\ UNCHANGED boletos
         ELSE IF ParseValorRaises(valor)
           THEN /\ resp' = Response("update_boleto", id, 500)
                /\ UNCHANGED boletos
         ELSE /\ boletos' = [boletos EXCEPT ![id] =
                   [descricao |-> desc,
                    valor_centavos |-> parse_valor_to_centavos(valor),
                    vencimento |-> IF venc # <<>> THEN strptime(venc)
                                   ELSE boletos[id].vencimento,
                    status |-> status,
                    created_at |-> boletos[id].created_at]]
              /\ resp' = Response("update_boleto", id, 200)
      /\ UNCHANGED <<compras, vendas, config, clock, ret, procs>>

\* POST /boletos/<id>/update
update_boleto(id, f) ==
  LET desc == Strip(f.descricao)
      valor == OrDefault(f.valor, <<"0">>)
      venc == f.vencimento
      status == Strip(OrDefault(f.status, ABERTO))
  IN  /\ IF id \notin DOMAIN boletos
           THEN /\ resp' = Response("update_boleto", id, 404)
                /\ UNCHANGED boletos
         ELSE IF desc = <<>>
           THEN /\ resp' = Response("update_boleto", id, 400)
                /\ UNCHANGED boletos
         ELSE IF ParseValorRaises(valor)
           THEN /\ resp' = Response("update_boleto", id, 500)
                /\ UNCHANGED boletos
         ELSE /\ boletos' = [boletos EXCEPT ![id] =
                   [descricao |-> desc,
                    valor_centavos |-> parse_valor_to_centavos(valor),
                    vencimento |-> IF venc # <<>> THEN strptime(venc) ELSE None,
                    status |-> status,
                    created_at |-> boletos[id].created_at]]
              /\ resp' = Response("update_boleto", id, 200)
      /\ UNCHANGED <<compras, vendas, config, clock, ret, procs>>

\* toggle_status leaving a status that is neither open nor paid as it is
ToggledKeepsOther(status) ==
  IF status = ABERTO THEN PAGO
  ELSE IF status = PAGO THEN ABERTO
  ELSE status

\* the status toggle_status assigns
Toggled(status) ==
  IF status = ABERTO THEN PAGO
  ELSE IF status = PAGO THEN ABERTO
  ELSE ABERTO

\* POST /boletos/<id>/toggle
toggle_status(id) ==
  /\ IF id \notin DOMAIN boletos
       THEN /\ resp' = Response("toggle_status", id, 404)
            /\ UNCHANGED boletos
       ELSE /\ boletos' = [boletos EXCEPT ![id].status = Toggled(@)]
            /\ resp' = Response("toggle_status", id, 200)
  /\ UNCHANGED <<compras, vendas, config, clock, ret, procs>>

\* delete_boleto answering 204 for an id the table does not hold
delete_boleto_no_404(id) ==
  /\ IF id \notin DOMAIN boletos
       THEN /\ resp' = Response("delete_boleto", id, 204)
            /\ UNCHANGED boletos
       ELSE /\ boletos' = Delete(boletos, id)
            /\ resp' = Response("delete_boleto", id, 204)
  /\ UNCHANGED <<compras, vendas, config, clock, ret, procs>>

\* DELETE /boletos/<id>
delete_boleto(id) ==
  /\ IF id \notin DOMAIN boletos
       THEN /\ resp' = Response("delete_boleto", id, 404)
            /\ UNCHANGED boletos
       ELSE /\ boletos' = Delete(boletos, id)
            /\ resp' = Response("delete_boleto", id, 204)
  /\ UNCHANGED <<compras, vendas, config, clock, ret, procs>>

(***************************************************************************)
(* Configuracoes                                                           *)
(***************************************************************************)
\* POST /config
save_config(f) ==
  LET fixo == OrDefault(f.fixo, <<"0">>)
      table == get_config_table(config)
  IN  /\ IF ParseValorRaises(fixo)
           THEN /\ resp' = Response("save_config", 1, 500)
                /\ config' = table
           ELSE /\ config' = [table EXCEPT ![1] =
                     [marketplace_percent |-> parse_percent(f.marketplace),
                      imposto_percent |-> parse_percent(f.imposto),
                      taxa_fixa_cent |-> parse_valor_to_centavos(fixo)]]
                /\ resp' = Response("save_config", 1, 302)
      /\ UNCHANGED <<compras, vendas, boletos, clock, ret, procs>>

\* calc_taxas(receita) evaluated on its own, as the sale rows do
NoRet == [receita |-> 0, marketplace_percent |-> 0, imposto_percent |-> 0,
          taxas |-> 0, called |-> FALSE,
          centavos |-> 0, texto |-> <<>>, parsed |-> 0, formatted |-> FALSE]

call_calc_taxas(receita) ==
  /\ ret' = [NoRet EXCEPT !.receita = receita,
               !.marketplace_percent = get_config.marketplace_percent,
               !.imposto_percent = get_config.imposto_percent,
               !.taxas = calc_taxas(receita), !.called = TRUE]
  /\ config' = get_config_table(config)
  /\ UNCHANGED <<compras, vendas, boletos, clock, resp, procs>>

\* an amount formatted by moeda and the text parsed again, as when a
\* displayed amount is typed back into a form
call_moeda(centavos) ==
  /\ ret' = [NoRet EXCEPT !.centavos = centavos, !.texto = moeda(centavos),
               !.parsed = parse_valor_to_centavos(moeda(centavos)),
               !.formatted = TRUE]
  /\ UNCHANGED <<compras, vendas, boletos, config, clock, resp, procs>>

(***************************************************************************)
(* Lists                                                                   *)
(***************************************************************************)
\* GET /compras
compras_list ==
  /\ resp' = [Response("compras", 0, 200) EXCEPT !.rows =
                Objects(compras, OrderByDataDesc(compras, DOMAIN compras))]
  /\ UNCHANGED <<compras, vendas, boletos, config, clock, ret, procs>>

\* GET /vendas
\* vendas.html includes _venda_row.html for each sale; the handler hands it
\* vendas, today_iso and config but neither calc_taxas nor
\* custo_para_venda, so that the first row's call of custo_para_venda(v)
\* raises UndefinedError. _get_config() has run by then.
vendas_list ==
  /\ resp' = IF DOMAIN vendas = {}
               THEN Response("vendas", 0, 200)
               ELSE Response("vendas", 0, 500)
  /\ config' = get_config_table(config)
  /\ UNCHANGED <<compras, vendas, boletos, clock, ret, procs>>

\* _venda_row.html without the fixed fee in taxas
venda_row_html_no_fixed_fee(v) ==
  LET custo == custo_para_venda(v)
      receita == v.preco_unitario_cent * v.quantidade
      taxas == calc_taxas(receita)
      lucro == receita - taxas - (custo * v.quantidade)
  IN  [custo |-> custo, receita |-> receita, taxas |-> taxas, lucro |-> lucro]

\* the values _venda_row.html sets for sale v, with config=_get_config()
venda_row_html(v) ==
  LET custo == custo_para_venda(v)
      receita == v.preco_unitario_cent * v.quantidade
      taxas == calc_taxas(receita) + (get_config.taxa_fixa_cent * v.quantidade)
      lucro == receita - taxas - (custo * v.quantidade)
  IN  [custo |-> custo, receita |-> receita, taxas |-> taxas, lucro |-> lucro]

\* GET /vendas/<id>/row
venda_row(id) ==
  /\ IF id \notin DOMAIN vendas
       THEN /\ resp' = Response("venda_row", id, 404)
            /\ UNCHANGED config
       ELSE /\ config' = get_config_table(config)
            /\ resp' = [Response("venda_row", id, 200) EXCEPT !.linha =
                          Some(venda_row_html(vendas[id]))]
  /\ UNCHANGED <<compras, vendas, boletos, clock, ret, procs>>

\* GET /boletos
index ==
  /\ resp' = [Response("index", 0, 200) EXCEPT !.rows =
                Objects(boletos, OrderByCreatedDesc(boletos, DOMAIN boletos))]
  /\ UNCHANGED <<compras, vendas, boletos, config, clock, ret, procs>>

(***************************************************************************)
(* CSV exports                                                             *)
(***************************************************************************)
\* sep.join(parts)
RECURSIVE Join(_, _)
Join(parts, sep) ==
  IF parts = <<>> THEN <<>>
  ELSE IF Len(parts) = 1 THEN parts[1]
  ELSE parts[1] \o sep \o Join(Tail(parts), sep)

\* created_at.isoformat(): the day and the time of the insert
datetime_isoformat(t) ==
  isoformat(Today) \o <<"T", "1", "2", ":", "0", "0", ":">> \o ZeroPad(t, 2)

HeaderBoletos ==
  <<"i", "d", ",", "d", "e", "s", "c", "r", "i", "c", "a", "o", ",", "v",
    "a", "l", "o", "r", "_", "c", "e", "n", "t", "a", "v", "o", "s", ",",
    "v", "e", "n", "c", "i", "m", "e", "n", "t", "o", ",", "s", "t", "a",
    "t", "u", "s", ",", "c", "r", "e", "a", "t", "e", "d", "_", "a", "t">>

HeaderCompras ==
  <<"i", "d", ",", "p", "r", "o", "d", "u", "t", "o", ",", "c", "u", "s",
    "t", "o", "_", "u", "n", "i", "t", "a", "r", "i", "o", "_", "c", "e",
    "n", "t", ",", "q", "u", "a", "n", "t", "i", "d", "a", "d", "e", ",",
    "d", "a", "t", "a", ",", "c", "r", "e", "a", "t", "e", "d", "_", "a",
    "t">>

HeaderVendas ==
  <<"i", "d", ",", "p", "r", "o", "d", "u", "t", "o", ",", "p", "r", "e",
    "c", "o", "_", "u", "n", "i", "t", "a", "r", "i", "o", "_", "c", "e",
    "n", "t", ",", "q", "u", "a", "n", "t", "i", "d", "a", "d", "e", ",",
    "d", "a", "t", "a", ",", "c", "u", "s", "t", "o", "_", "u", "n", "i",
    "t", "a", "r", "i", "o", "_", "o", "v", "e", "r", "r", "i", "d", "e",
    "_", "c", "e", "n", "t", ",", "c", "r", "e", "a", "t", "e", "d", "_",
    "a", "t">>

\* lines after the loop: the header, then ','.join(row) for each row of
\* fields, in order
CsvLines(header, rows) ==
  <<header>> \o [k \in 1..Len(rows) |-> Join(rows[k], <<",">>)]

RowBoleto(b) ==
  <<IntStr(b.id), ReplaceChar(b.descricao, ",", " "), IntStr(b.valor_centavos),
    IF b.vencimento # None THEN isoformat(b.vencimento) ELSE <<>>,
    b.status, datetime_isoformat(b.created_at)>>

RowCompra(c) ==
  <<IntStr(c.id), ReplaceChar(c.produto, ",", " "),
    IntStr(c.custo_unitario_cent), IntStr(c.quantidade), isoformat(c.data),
    datetime_isoformat(c.created_at)>>

RowVenda(v) ==
  <<IntStr(v.id), ReplaceChar(v.produto, ",", " "),
    IntStr(v.preco_unitario_cent), IntStr(v.quantidade), isoformat(v.data),
    IF v.custo_unitario_override_cent \in {None, Some(0)} THEN <<>>
    ELSE IntStr(v.custo_unitario_override_cent[1]),
    datetime_isoformat(v.created_at)>>

\* GET /export/boletos.csv
export_boletos_csv ==
  /\ resp' = [Response("export_boletos_csv", 0, 200) EXCEPT !.body =
       LET objs == Objects(boletos, OrderByCreatedDesc(boletos, DOMAIN boletos))
       IN  Join(CsvLines(HeaderBoletos, [k \in 1..Len(objs) |-> RowBoleto(objs[k])]),
                <<"\n">>)]
  /\ UNCHANGED <<compras, vendas, boletos, config, clock, ret, procs>>

\* GET /export/compras.csv
export_compras_csv ==
  /\ resp' = [Response("export_compras_csv", 0, 200) EXCEPT !.body =
       LET objs == Objects(compras, OrderByDataDesc(compras, DOMAIN compras))
       IN  Join(CsvLines(HeaderCompras, [k \in 1..Len(objs) |-> RowCompra(objs[k])]),
                <<"\n">>)]
  /\ UNCHANGED <<compras, vendas, boletos, config, clock, ret, procs>>

\* GET /export/vendas.csv
export_vendas_csv ==
  /\ resp' = [Response("export_vendas_csv", 0, 200) EXCEPT !.body =
       LET objs == Objects(vendas, OrderByDataDesc(vendas, DOMAIN vendas))
       IN  Join(CsvLines(HeaderVendas, [k \in 1..Len(objs) |-> RowVenda(objs[k])]),
                <<"\n">>)]
  /\ UNCHANGED <<compras, vendas, boletos, config, clock, ret, procs>>

(***************************************************************************)
(* _get_config() and save_config() statement by statement, as concurrent   *)
(* requests run them                                                       *)
(***************************************************************************)
\* Config() with the id left to the database
NewConfigIdAuto(table) == NewId(table)

\* the id of the row _get_config() adds: Config(id=1)
NewConfigId(table) == 1

\* cfg = Config.query.get(1), in a request that worker p starts once its
\* previous one is over
get_config_query(p) ==
  /\ procs[p].pc # "queried"
  /\ procs' = [procs EXCEPT ![p] =
                 IF 1 \in DOMAIN config
                   THEN [pc |-> "queried", id |-> 1, cfg |-> Some(config[1])]
                   ELSE [pc |-> "queried", id |-> 0, cfg |-> None]]
  /\ UNCHANGED <<compras, vendas, boletos, config, clock, resp, ret>>

\* if not cfg: db.session.add(Config(id=1)); db.session.commit()
\* return cfg
\* The INSERT of an id the table holds fails on the primary key
\* (IntegrityError), which no caller catches.
get_config_insert(p) ==
  LET id == NewConfigId(config)
  IN  /\ procs[p].pc = "queried"
      /\ IF procs[p].cfg # None
           THEN /\ procs' = [procs EXCEPT ![p].pc = "returned"]
                /\ UNCHANGED <<config, resp>>
         ELSE IF id \in DOMAIN config
           THEN /\ procs' = [procs EXCEPT ![p].pc = "failed"]
                /\ resp' = Response("_get_config", id, 500)
                /\ UNCHANGED config
         ELSE /\ config' = [i \in DOMAIN config \cup {id} |->
                              IF i = id THEN DefaultConfig ELSE config[i]]
              /\ procs' = [procs EXCEPT ![p] =
                   [pc |-> "returned", id |-> id, cfg |-> Some(DefaultConfig)]]
              /\ UNCHANGED resp
      /\ UNCHANGED <<compras, vendas, boletos, clock, ret>>

\* save_config() after its _get_config() returned: the three assignments
\* and the commit, an UPDATE of the attributes whose value differs from the
\* one the object was loaded with
save_config_commit(p, f) ==
  LET fixo == OrDefault(f.fixo, <<"0">>)
      id == procs[p].id
      old == procs[p].cfg[1]
      new == [marketplace_percent |-> parse_percent(f.marketplace),
              imposto_percent |-> parse_percent(f.imposto),
              taxa_fixa_cent |-> parse_valor_to_centavos(fixo)]
      row == [k \in DOMAIN new |->
                IF new[k] # old[k] THEN new[k] ELSE config[id][k]]
  IN  /\ procs[p].pc = "returned"
      /\ IF ParseValorRaises(fixo)
           THEN /\ procs' = [procs EXCEPT ![p].pc = "failed"]
                /\ resp' = Response("save_config", id, 500)
                /\ UNCHANGED config
           ELSE /\ config' = [config EXCEPT ![id] = row]
                /\ procs' = [procs EXCEPT ![p] =
                     [pc |-> "saved", id |-> id, cfg |-> Some(new)]]
                /\ resp' = Response("save_config", id, 302)
      /\ UNCHANGED <<compras, vendas, boletos, clock, ret>>

(***************************************************************************)
(* Requests                                                                *)
(***************************************************************************)
\* forms posted to /compras and /compras/<id>/update: well-formed ones
CompraFormsValid ==
  {[produto |-> <<"a", "b">>, custo |-> <<"3", "5", ",", "9", "0">>, quantidade |-> <<"2">>, data |-> <<"2", "0", "2", "4", "-", "0", "1", "-", "1", "5">>],
   [produto |-> <<"A", "B">>, custo |-> <<"1", "0">>, quantidade |-> <<>>, data |-> <<>>]}

\* and ones with an empty, malformed or out-of-range field
CompraFormsOdd ==
  {[produto |-> <<" ">>, custo |-> <<"a", "b", "c">>, quantidade |-> <<"0">>, data |-> <<"b", "a", "d">>],
   [produto |-> <<"a", "b">>, custo |-> <<"n", "a", "n">>, quantidade |-> <<"1">>, data |-> <<>>],
   [produto |-> <<>>, custo |-> <<"1">>, quantidade |-> <<"x">>, data |-> <<>>],
   [produto |-> <<"c", "d">>, custo |-> <<"a", "b", "c">>, quantidade |-> <<"-", "1">>, data |-> <<"2", "0", "2", "4", "-", "0", "2", "-", "3", "0">>],
   [produto |-> <<"c", "d">>, custo |-> <<"5">>, quantidade |-> <<"x">>, data |-> <<>>]}

CompraForms == CompraFormsValid \cup CompraFormsOdd

\* forms posted to /vendas and /vendas/<id>/update
VendaFormsValid ==
  {[produto |-> <<"a", "b">>, preco |-> <<"9", "9", ",", "9", "0">>, quantidade |-> <<"2">>, data |-> <<"2", "0", "2", "4", "-", "0", "1", "-", "1", "5">>, custo |-> <<>>],
   [produto |-> <<"a", "b">>, preco |-> <<"9", "9", ",", "9", "0">>, quantidade |-> <<"2">>, data |-> <<>>, custo |-> <<"0">>],
   [produto |-> <<"a", "_">>, preco |-> <<"1", ",", "5", "0">>, quantidade |-> <<>>, data |-> <<>>, custo |-> <<>>],
   [produto |-> <<"c", "d">>, preco |-> <<"1", ",", "5", "0">>, quantidade |-> <<>>, data |-> <<"b", "a", "d">>, custo |-> <<"3", "5", ",", "9", "0">>]}

VendaFormsOdd ==
  {[produto |-> <<>>, preco |-> <<"1">>, quantidade |-> <<"0">>, data |-> <<>>, custo |-> <<>>],
   [produto |-> <<"A", "B">>, preco |-> <<"i", "n", "f">>, quantidade |-> <<"1">>, data |-> <<>>, custo |-> <<>>],
   [produto |-> <<"a", "b">>, preco |-> <<"1">>, quantidade |-> <<"x">>, data |-> <<>>, custo |-> <<>>]}

VendaForms == VendaFormsValid \cup VendaFormsOdd

\* forms posted to /boletos and /boletos/<id>/update
BoletoFormsValid ==
  {[descricao |-> <<"l", "u", "z">>, valor |-> <<"1", "2", "3", ",", "4", "5">>, vencimento |-> <<"2", "0", "2", "4", "-", "0", "1", "-", "1", "5">>, status |-> <<>>],
   [descricao |-> <<"l", "u", "z">>, valor |-> <<"a", "b", "c">>, vencimento |-> <<>>, status |-> <<"p", "a", "g", "o">>],
   [descricao |-> <<"l", "u", "z">>, valor |-> <<"2">>, vencimento |-> <<"b", "a", "d">>, status |-> <<"c", "a", "n", "c", "e", "l", "a", "d", "o">>]}

BoletoFormsOdd ==
  {[descricao |-> <<" ">>, valor |-> <<"1">>, vencimento |-> <<>>, status |-> <<>>],
   [descricao |-> <<"l", "u", "z">>, valor |-> <<"n", "a", "n">>, vencimento |-> <<>>, status |-> <<>>],
   [descricao |-> <<"l", "u", "z">>, valor |-> <<"1">>, vencimento |-> <<>>, status |-> <<"x", "y", "z">>]}

BoletoForms == BoletoFormsValid \cup BoletoFormsOdd

\* forms posted to /config
ConfigForms ==
  {[marketplace |-> <<"2", "0">>, imposto |-> <<"8">>, fixo |-> <<"4", ",", "0", "0">>],
   [marketplace |-> <<"7">>, imposto |-> <<"0">>, fixo |-> <<"0">>],
   [marketplace |-> <<"a", "b", "c">>, imposto |-> <<"1", "4", "%">>, fixo |-> <<"n", "a", "n">>],
   [marketplace |-> <<"a", "b", "c">>, imposto |-> <<"1", "4", "%">>, fixo |-> <<>>]}

\* values of the query parameter m of /dashboard
Months == {<<>>, <<"2", "0", "2", "4", "-", "0", "1">>, <<"x">>}

\* sales on the first and last days of months, around the turn of the year
VendaFormsDated ==
  {[produto |-> <<"a", "b">>, preco |-> <<"9", "9", ",", "9", "0">>, quantidade |-> <<"2">>, data |-> <<"2", "0", "2", "3", "-", "1", "2", "-", "3", "1">>, custo |-> <<"3", "5", ",", "9", "0">>],
   [produto |-> <<"a", "b">>, preco |-> <<"1", "0">>, quantidade |-> <<"1">>, data |-> <<"2", "0", "2", "4", "-", "0", "1", "-", "0", "1">>, custo |-> <<>>],
   [produto |-> <<"c", "d">>, preco |-> <<"1", ",", "5", "0">>, quantidade |-> <<"3">>, data |-> <<"2", "0", "2", "4", "-", "0", "1", "-", "3", "1">>, custo |-> <<"1">>],
   [produto |-> <<"c", "d">>, preco |-> <<"2", "0">>, quantidade |-> <<>>, data |-> <<"2", "0", "2", "4", "-", "0", "2", "-", "0", "1">>, custo |-> <<>>],
   [produto |-> <<"a", "b">>, preco |-> <<"5">>, quantidade |-> <<>>, data |-> <<>>, custo |-> <<>>]}

\* the months of those sales; the empty one is the current month
MonthsDated == {<<"2", "0", "2", "3", "-", "1", "2">>, <<"2", "0", "2", "4", "-", "0", "1">>, <<"2", "0", "2", "4", "-", "0", "2">>, <<>>}

\* invoices with a due date each
BoletoFormsDated ==
  {[descricao |-> <<"l", "u", "z">>, valor |-> <<"1">>, vencimento |-> <<"2", "0", "2", "4", "-", "0", "1", "-", "1", "5">>, status |-> <<>>],
   [descricao |-> <<"g", "a", "s">>, valor |-> <<"2">>, vencimento |-> <<"2", "0", "2", "4", "-", "0", "2", "-", "0", "1">>, status |-> <<"p", "a", "g", "o">>]}

\* amounts in centavos: whole reais below and above the grouping of
\* thousands, with several values of the cents, of either sign
Amounts ==
  {sgn * (reais * 100 + c) :
     sgn \in {-1, 1},
     reais \in {0, 1, 9, 10, 35, 99, 100, 999, 1000, 1234, 99999, 1000000},
     c \in {0, 1, 5, 10, 90, 99}}

\* forms whose text field holds a line break
CompraFormsLines ==
  {[produto |-> <<"a", "\n", "b">>, custo |-> <<"1">>, quantidade |-> <<"1">>, data |-> <<>>]}

VendaFormsLines ==
  {[produto |-> <<"a", "\n", "b">>, preco |-> <<"1">>, quantidade |-> <<"1">>, data |-> <<>>, custo |-> <<>>]}

BoletoFormsLines ==
  {[descricao |-> <<"a", "\n", "b">>, valor |-> <<"1">>, vencimento |-> <<>>, status |-> <<>>]}

\* the concurrent requests
Procs == 1..MaxProcs

\* the row ids a request may name
Ids == 1..MaxClock

(***************************************************************************)
(* The application                                                         *)
(***************************************************************************)
\* after init(): the tables exist and are empty, the Config row is created
Init ==
  /\ compras = <<>>
  /\ vendas = <<>>
  /\ boletos = <<>>
  /\ config = get_config_table(<<>>)
  /\ clock = 0
  /\ resp = Response("init", 0, 200)
  /\ ret = NoRet
  /\ procs = [p \in Procs |-> [pc |-> "idle", id |-> 0, cfg |-> None]]

Next ==
  \/ \E f \in CompraForms, hx \in BOOLEAN : create_compra(f, hx)
  \/ \E id \in Ids, f \in CompraForms : update_compra(id, f)
  \/ \E id \in Ids : delete_compra(id)
  \/ \E f \in VendaForms, hx \in BOOLEAN : create_venda(f, hx)
  \/ \E id \in Ids, f \in VendaForms : update_venda(id, f)
  \/ \E id \in Ids : delete_venda(id)
  \/ \E f \in BoletoForms, hx \in BOOLEAN : create_boleto(f, hx)
  \/ \E id \in Ids, f \in BoletoForms : update_boleto(id, f)
  \/ \E id \in Ids : toggle_status(id)
  \/ \E id \in Ids : delete_boleto(id)
  \/ \E f \in ConfigForms : save_config(f)
  \/ \E ym \in Months : dashboard(ym)

Spec == Init /\ [][Next]_vars

\* The profit calculation: purchases, sales, the configuration and the
\* dashboard, with well-formed forms.
NextVendas ==
  \/ \E f \in CompraFormsValid : create_compra(f, TRUE)
  \/ \E id \in Ids, f \in CompraFormsValid : update_compra(id, f)
  \/ \E id \in Ids : delete_compra(id)
  \/ \E f \in VendaFormsValid : create_venda(f, TRUE)
  \/ \E id \in Ids, f \in VendaFormsValid : update_venda(id, f)
  \/ \E id \in Ids : delete_venda(id)
  \/ \E f \in ConfigForms : save_config(f)
  \/ \E ym \in Months : dashboard(ym)

SpecVendas == Init /\ [][NextVendas]_vars

\* The three ledgers: rows created from the well-formed forms that submit a
\* date and updated with the forms that submit none.
NextLedgers ==
  \/ \E f \in {g \in CompraFormsValid : g.data # <<>>} :
       create_compra(f, TRUE)
  \/ \E id \in Ids, f \in {g \in CompraForms : g.data = <<>>} :
       update_compra(id, f)
  \/ \E f \in {g \in VendaFormsValid : g.data # <<>>} :
       create_venda(f, TRUE)
  \/ \E id \in Ids, f \in {g \in VendaForms : g.data = <<>>} :
       update_venda(id, f)
  \/ \E f \in {g \in BoletoFormsValid : g.vencimento # <<>>} :
       create_boleto(f, TRUE)
  \/ \E id \in Ids, f \in {g \in BoletoForms : g.vencimento = <<>>} :
       update_boleto(id, f)

SpecLedgers == Init /\ [][NextLedgers]_vars

\* The invoices on their own.
NextBoletos ==
  \/ \E f \in BoletoForms, hx \in BOOLEAN : create_boleto(f, hx)
  \/ \E id \in Ids, f \in BoletoForms : update_boleto(id, f)
  \/ \E id \in Ids : toggle_status(id)
  \/ \E id \in Ids : delete_boleto(id)

SpecBoletos == Init /\ [][NextBoletos]_vars

\* calc_taxas under every configuration the settings form produces.
NextTaxas ==
  \/ \E f \in ConfigForms : save_config(f)
  \/ \E receita \in 0..MaxReceita : call_calc_taxas(receita)

SpecTaxas == Init /\ [][NextTaxas]_vars

\* Concurrent first requests on a fresh database: init() has not run and
\* the table config is empty.
InitFresh ==
  /\ compras = <<>>
  /\ vendas = <<>>
  /\ boletos = <<>>
  /\ config = <<>>
  /\ clock = 0
  /\ resp = Response("init", 0, 200)
  /\ ret = NoRet
  /\ procs = [p \in Procs |-> [pc |-> "idle", id |-> 0, cfg |-> None]]

NextConfig ==
  \/ \E p \in Procs : get_config_query(p)
  \/ \E p \in Procs : get_config_insert(p)
  \/ \E p \in Procs, f \in ConfigForms : save_config_commit(p, f)

SpecConfig == InitFresh /\ [][NextConfig]_vars

\* The monthly aggregation: sales of several months and the dashboard of
\* each month.
NextMonth ==
  \/ \E f \in VendaFormsDated : create_venda(f, TRUE)
  \/ \E id \in Ids : delete_venda(id)
  \/ \E ym \in MonthsDated : dashboard(ym)

SpecMonth == Init /\ [][NextMonth]_vars

\* The rows of the three ledgers created, updated and deleted by id, with
\* well-formed forms.
NextRows ==
  \/ \E f \in CompraFormsValid : create_compra(f, TRUE)
  \/ \E id \in Ids, f \in CompraFormsValid : update_compra(id, f)
  \/ \E id \in Ids : delete_compra(id)
  \/ \E f \in VendaFormsValid : create_venda(f, TRUE)
  \/ \E id \in Ids, f \in VendaFormsValid : update_venda(id, f)
  \/ \E id \in Ids : delete_venda(id)
  \/ \E f \in BoletoFormsValid : create_boleto(f, TRUE)
  \/ \E id \in Ids, f \in BoletoFormsValid : update_boleto(id, f)
  \/ \E id \in Ids : delete_boleto(id)

SpecRows == Init /\ [][NextRows]_vars

\* The three lists over rows created and deleted.
NextLists ==
  \/ \E f \in CompraFormsValid : create_compra(f, TRUE)
  \/ \E id \in Ids : delete_compra(id)
  \/ \E f \in VendaFormsValid : create_venda(f, TRUE)
  \/ \E id \in Ids : delete_venda(id)
  \/ \E f \in BoletoFormsDated : create_boleto(f, TRUE)
  \/ \E id \in Ids : delete_boleto(id)
  \/ compras_list
  \/ vendas_list
  \/ index

SpecLists == Init /\ [][NextLists]_vars

\* moeda and parse_valor_to_centavos on their own.
NextMoeda ==
  \E centavos \in Amounts : call_moeda(centavos)

SpecMoeda == Init /\ [][NextMoeda]_vars

\* The three exports over rows created and deleted.
NextCsv ==
  \/ \E f \in CompraFormsValid \cup CompraFormsLines : create_compra(f, TRUE)
  \/ \E id \in Ids : delete_compra(id)
  \/ \E f \in VendaFormsValid \cup VendaFormsLines : create_venda(f, TRUE)
  \/ \E id \in Ids : delete_venda(id)
  \/ \E f \in BoletoFormsValid \cup BoletoFormsLines : create_boleto(f, TRUE)
  \/ \E id \in Ids : delete_boleto(id)
  \/ export_boletos_csv
  \/ export_compras_csv
  \/ export_vendas_csv

SpecCsv == Init /\ [][NextCsv]_vars

\* The row template, the sales list and the dashboard over the same sales.
NextVendaRow ==
  \/ \E f \in CompraFormsValid : create_compra(f, TRUE)
  \/ \E id \in Ids : delete_compra(id)
  \/ \E f \in VendaFormsValid : create_venda(f, TRUE)
  \/ \E id \in Ids : delete_venda(id)
  \/ \E f \in ConfigForms : save_config(f)
  \/ \E id \in Ids : venda_row(id)
  \/ vendas_list
  \/ \E ym \in Months : dashboard(ym)

SpecVendaRow == Init /\ [][NextVendaRow]_vars

\* sales to edit: dated on a day that is and is not the number of the
\* month, with and without a cost override
VendaFormsEdit ==
  {[produto |-> <<"a", "b">>, preco |-> <<"9", "9", ",", "9", "0">>, quantidade |-> <<"2">>, data |-> <<"2", "0", "2", "4", "-", "0", "1", "-", "1", "5">>, custo |-> <<>>],
   [produto |-> <<"a", "b">>, preco |-> <<"1", ".", "2", "3", "4", ",", "5", "6">>, quantidade |-> <<"1">>, data |-> <<"2", "0", "2", "4", "-", "0", "1", "-", "0", "1">>, custo |-> <<"3", "5", ",", "9", "0">>],
   [produto |-> <<"c", "d">>, preco |-> <<"1", ",", "5", "0">>, quantidade |-> <<"3">>, data |-> <<"2", "0", "2", "4", "-", "0", "2", "-", "0", "2">>, custo |-> <<"0">>],
   [produto |-> <<"c", "d">>, preco |-> <<"2", "0">>, quantidade |-> <<>>, data |-> <<>>, custo |-> <<>>]}

\* Sales opened in the edit form and posted back as rendered.
NextEdit ==
  \/ \E f \in CompraFormsValid : create_compra(f, TRUE)
  \/ \E f \in VendaFormsEdit : create_venda(f, TRUE)
  \/ \E id \in Ids : delete_venda(id)
  \/ \E id \in Ids : edit_venda(id)
  \/ submit_venda_edit_row

SpecEdit == Init /\ [][NextEdit]_vars

(***************************************************************************)
(* Properties                                                              *)
(***************************************************************************)
\* the response to a /dashboard request that rendered
DashboardRendered == resp.op = "dashboard" /\ resp.status = 200

\* C1: every line of the dashboard has revenue = unit price * quantity,
\* fees = calc_taxas(revenue) + fixed fee * quantity and
\* profit = revenue - fees - unit cost * quantity, never clamped: the
\* profit is negative exactly when fees + cost exceed the revenue, and the
\* sale of 2 units at 9990 costing 3590 each under the default rates has
\* profit 6406.
C1_LineArithmetic ==
  DashboardRendered =>
    \A k \in 1..Len(resp.dash.linhas) :
      LET l == resp.dash.linhas[k]
          v == l.venda
          cfg == config[1]
          unitCost == custo_para_venda(v)
          revenue == v.preco_unitario_cent * v.quantidade
          fees == calc_taxas(revenue) + cfg.taxa_fixa_cent * v.quantidade
          profit == revenue - fees - unitCost * v.quantidade
      IN  /\ l.receita = revenue
          /\ l.taxas = fees
          /\ l.lucro = profit
          /\ (l.lucro < 0) <=> (fees + unitCost * v.quantidade > revenue)
          /\ ( /\ v.preco_unitario_cent = 9990 /\ v.quantidade = 2
               /\ unitCost = 3590 /\ cfg = DefaultConfig ) => l.lucro = 6406

\* C1 witness: a rendered dashboard with a line whose profit is negative
C1_Witness ==
  /\ DashboardRendered
  /\ \E k \in 1..Len(resp.dash.linhas) :
       /\ resp.dash.linhas[k].lucro < 0
       /\ resp.dash.linhas[k].receita > 0

\* C2: for every revenue R >= 0 and every configuration, calc_taxas(R) is
\* R*mk/100 rounded to the nearest integer plus R*tax/100 rounded to the
\* nearest integer, each rounded on its own with an exact half going to
\* the even neighbour.
C2_FeesRoundedHalfEven ==
  (ret.called /\ ret.receita >= 0) =>
    ret.taxas = RoundHalfEven(ret.receita * ret.marketplace_percent, 100)
              + RoundHalfEven(ret.receita * ret.imposto_percent, 100)

\* the purchases whose product name equals produto ignoring letter case
SameNameCompras(produto) ==
  {i \in DOMAIN compras : Lower(compras[i].produto) = Lower(produto)}

\* the unit cost of the purchase with the greatest (data, created_at) among
\* the purchases of that name; 0 when there is none
LatestSameNameCusto(produto) ==
  LET same == SameNameCompras(produto)
  IN  IF same = {} THEN 0
      ELSE LET last == CHOOSE i \in same : \A j \in same \ {i} :
                         \/ DateLess(compras[j].data, compras[i].data)
                         \/ /\ compras[j].data = compras[i].data
                            /\ compras[j].created_at < compras[i].created_at
           IN  compras[last].custo_unitario_cent

\* C3: a sale whose cost override is 0 has unit cost 0, whatever purchases
\* exist, and a sale without override has unit cost 0 when no purchase has
\* its product name.
C3_OverrideZeroAndNoPurchase ==
  \A i \in DOMAIN vendas :
    LET v == vendas[i]
    IN  /\ v.custo_unitario_override_cent = Some(0) => custo_para_venda(v) = 0
        /\ ( /\ v.custo_unitario_override_cent = None
             /\ SameNameCompras(v.produto) = {} ) => custo_para_venda(v) = 0

\* C4: the unit cost of a sale without override is that of the latest
\* purchase whose product name equals the sale's ignoring letter case, and
\* no purchase of another name is ever used.
C4_ExactNameLatestPurchase ==
  \A i \in DOMAIN vendas :
    vendas[i].custo_unitario_override_cent = None =>
      custo_para_venda(vendas[i]) = LatestSameNameCusto(vendas[i].produto)

\* C5: every stored purchase and sale has a non-empty product and every
\* stored invoice a non-empty description.
C5_RequiredFieldNonEmpty ==
  /\ \A i \in DOMAIN compras : compras[i].produto # <<>>
  /\ \A i \in DOMAIN vendas : vendas[i].produto # <<>>
  /\ \A i \in DOMAIN boletos : boletos[i].descricao # <<>>

\* C6: every stored purchase and sale has quantity >= 1.
C6_QuantityAtLeastOne ==
  /\ \A i \in DOMAIN compras : compras[i].quantidade >= 1
  /\ \A i \in DOMAIN vendas : vendas[i].quantidade >= 1

\* C7: a create request whose required text field is empty or only
\* whitespace is answered 400 and changes no table.
C7_EmptyRequiredFieldIs400 ==
  [][ /\ \A f \in CompraForms, hx \in BOOLEAN :
           (create_compra(f, hx) /\ Strip(f.produto) = <<>>) =>
             (resp'.status = 400 /\ UNCHANGED <<compras, vendas, boletos>>)
      /\ \A f \in VendaForms, hx \in BOOLEAN :
           (create_venda(f, hx) /\ Strip(f.produto) = <<>>) =>
             (resp'.status = 400 /\ UNCHANGED <<compras, vendas, boletos>>)
      /\ \A f \in BoletoForms, hx \in BOOLEAN :
           (create_boleto(f, hx) /\ Strip(f.descricao) = <<>>) =>
             (resp'.status = 400 /\ UNCHANGED <<compras, vendas, boletos>>)
    ]_vars

\* a monetary, quantity or date string the parsers do not accept
MalformedValor(s) == DecimalKind(NormalizeValor(s)) # "finite"

MalformedQuantidade(s) == IntRaises(s)

MalformedData(s) == strptime(s) = None

\* the table has exactly one more row after the step, the row resp'.id
OneRowAdded(before, after, id) ==
  /\ id \notin DOMAIN before
  /\ DOMAIN after = DOMAIN before \cup {id}
  /\ \A i \in DOMAIN before : after[i] = before[i]

\* C8: a create request whose required text field is non-empty succeeds
\* whatever the other fields hold: exactly one row is added, a malformed
\* monetary value is stored as 0, a malformed or absent quantity as 1 and a
\* malformed or absent date as today.
C8_CreateNeverFails ==
  [][ /\ \A f \in CompraForms, hx \in BOOLEAN :
           (create_compra(f, hx) /\ Strip(f.produto) # <<>>) =>
             /\ resp'.status \in {200, 302}
             /\ OneRowAdded(compras, compras', resp'.id)
             /\ MalformedValor(f.custo) =>
                  compras'[resp'.id].custo_unitario_cent = 0
             /\ MalformedQuantidade(f.quantidade) =>
                  compras'[resp'.id].quantidade = 1
             /\ MalformedData(f.data) => compras'[resp'.id].data = Today
      /\ \A f \in VendaForms, hx \in BOOLEAN :
           (create_venda(f, hx) /\ Strip(f.produto) # <<>>) =>
             /\ resp'.status \in {200, 302}
             /\ OneRowAdded(vendas, vendas', resp'.id)
             /\ MalformedValor(f.preco) =>
                  vendas'[resp'.id].preco_unitario_cent = 0
             /\ MalformedQuantidade(f.quantidade) =>
                  vendas'[resp'.id].quantidade = 1
             /\ MalformedData(f.data) => vendas'[resp'.id].data = Today
      /\ \A f \in BoletoForms, hx \in BOOLEAN :
           (create_boleto(f, hx) /\ Strip(f.descricao) # <<>>) =>
             /\ resp'.status \in {200, 302}
             /\ OneRowAdded(boletos, boletos', resp'.id)
             /\ MalformedValor(f.valor) =>
                  boletos'[resp'.id].valor_centavos = 0
    ]_vars

\* the fields of a purchase that update_compra takes from the form
CompraFieldsApplied(c, f) ==
  /\ c.produto = Strip(f.produto)
  /\ c.custo_unitario_cent = parse_valor_to_centavos(OrDefault(f.custo, <<"0">>))
  /\ c.quantidade = QuantidadeOf(f.quantidade)

\* the fields of a sale that update_venda takes from the form
VendaFieldsApplied(v, f) ==
  /\ v.produto = Strip(f.produto)
  /\ v.preco_unitario_cent = parse_valor_to_centavos(OrDefault(f.preco, <<"0">>))
  /\ v.quantidade = QuantidadeOf(f.quantidade)
  /\ v.custo_unitario_override_cent =
       IF f.custo # <<>> THEN Some(parse_valor_to_centavos(f.custo)) ELSE None

\* the fields of an invoice that update_boleto takes from the form
BoletoFieldsApplied(b, f) ==
  /\ b.descricao = Strip(f.descricao)
  /\ b.valor_centavos = parse_valor_to_centavos(OrDefault(f.valor, <<"0">>))
  /\ b.status = Strip(OrDefault(f.status, ABERTO))

\* C9 as amended: an update of an existing purchase or sale with an empty
\* date leaves its date unchanged and, when the request is accepted,
\* applies the other submitted fields; an accepted update of an existing
\* invoice with an empty due date applies the other submitted fields and
\* clears the due date; an update that is not accepted changes no row.
C9_EmptyDateOnUpdate ==
  [][ /\ \A id \in Ids, f \in CompraForms :
           ( /\ id \in DOMAIN compras /\ f.data = <<>>
             /\ resp'.op = "update_compra" /\ resp'.id = id
             /\ update_compra(id, f) ) =>
             /\ compras'[id].data = compras[id].data
             /\ resp'.status = 200 => CompraFieldsApplied(compras'[id], f)
             /\ resp'.status # 200 => compras' = compras
      /\ \A id \in Ids, f \in VendaForms :
           ( /\ id \in DOMAIN vendas /\ f.data = <<>>
             /\ resp'.op = "update_venda" /\ resp'.id = id
             /\ update_venda(id, f) ) =>
             /\ vendas'[id].data = vendas[id].data
             /\ resp'.status = 200 => VendaFieldsApplied(vendas'[id], f)
             /\ resp'.status # 200 => vendas' = vendas
      /\ \A id \in Ids, f \in BoletoForms :
           ( /\ id \in DOMAIN boletos /\ f.vencimento = <<>>
             /\ resp'.op = "update_boleto" /\ resp'.id = id
             /\ update_boleto(id, f) ) =>
             /\ resp'.status = 200 =>
                  /\ boletos'[id].vencimento = None
                  /\ BoletoFieldsApplied(boletos'[id], f)
             /\ resp'.status # 200 => boletos' = boletos
    ]_vars

\* C9 witness: right after an accepted update of an invoice that left it
\* with the fields of the form without due date and no due date, next to a
\* purchase holding the fields of the form without date and the date
\* 2024-01-15 of the other form, which only an update with the empty date
\* produces
C9_Witness ==
  /\ resp.op = "update_boleto" /\ resp.status = 200
  /\ resp.id \in DOMAIN boletos
  /\ boletos[resp.id].vencimento = None
  /\ boletos[resp.id].valor_centavos = 0
  /\ boletos[resp.id].status = PAGO
  /\ \E i \in DOMAIN compras :
       /\ compras[i].data = <<2024, 1, 15>>
       /\ compras[i].produto = <<"A", "B">>
       /\ compras[i].custo_unitario_cent = 1000

\* C9 as stated: for each of the three kinds, an update of an existing row
\* with an empty date leaves the row's date (the due date of an invoice)
\* unchanged, and an accepted one applies the other submitted fields.
C9_DateUnchangedOnUpdate ==
  [][ /\ \A id \in Ids, f \in CompraForms :
           ( /\ id \in DOMAIN compras /\ f.data = <<>>
             /\ resp'.op = "update_compra" /\ resp'.id = id
             /\ update_compra(id, f) ) =>
             /\ compras'[id].data = compras[id].data
             /\ resp'.status = 200 => CompraFieldsApplied(compras'[id], f)
      /\ \A id \in Ids, f \in VendaForms :
           ( /\ id \in DOMAIN vendas /\ f.data = <<>>
             /\ resp'.op = "update_venda" /\ resp'.id = id
             /\ update_venda(id, f) ) =>
             /\ vendas'[id].data = vendas[id].data
             /\ resp'.status = 200 => VendaFieldsApplied(vendas'[id], f)
      /\ \A id \in Ids, f \in BoletoForms :
           ( /\ id \in DOMAIN boletos /\ f.vencimento = <<>>
             /\ resp'.op = "update_boleto" /\ resp'.id = id
             /\ update_boleto(id, f) ) =>
             /\ boletos'[id].vencimento = boletos[id].vencimento
             /\ resp'.status = 200 => BoletoFieldsApplied(boletos'[id], f)
    ]_vars

\* C10: toggle_status on an existing invoice maps open to paid, paid to
\* open and cancelled to open, leaves the invoice open or paid, and changes
\* no other field, no other invoice and no other table.
C10_ToggleMapping ==
  [][ \A id \in Ids :
        ( /\ id \in DOMAIN boletos
          /\ resp'.op = "toggle_status" /\ resp'.id = id
          /\ toggle_status(id) ) =>
          /\ boletos[id].status = ABERTO => boletos'[id].status = PAGO
          /\ boletos[id].status = PAGO => boletos'[id].status = ABERTO
          /\ boletos[id].status = CANCELADO => boletos'[id].status = ABERTO
          /\ boletos'[id].status \in {ABERTO, PAGO}
          /\ boletos' = [boletos EXCEPT ![id].status = boletos'[id].status]
          /\ UNCHANGED <<compras, vendas, config>>
    ]_vars

\* C10 witness: right after a toggle, an open invoice of value 2,00: that
\* value is only submitted with the status cancelled, so the invoice was
\* cancelled and a toggle opened it
C10_Witness ==
  /\ resp.op = "toggle_status" /\ resp.status = 200
  /\ resp.id \in DOMAIN boletos
  /\ boletos[resp.id].valor_centavos = 200
  /\ boletos[resp.id].status = ABERTO

\* C11: every stored invoice has status aberto, pago or cancelado.
C11_StatusInEnum ==
  \A i \in DOMAIN boletos : boletos[i].status \in {ABERTO, PAGO, CANCELADO}

\* C12: under every interleaving of the requests, the table config never
\* holds more than one row, the row a request creates holds the defaults
\* 20, 8 and 400, and the row stays and keeps its values except when the
\* settings form is committed.
C12_OneConfigRow ==
  [][ /\ Cardinality(DOMAIN config) <= 1
      /\ Cardinality(DOMAIN config') <= 1
      /\ \A i \in DOMAIN config' \ DOMAIN config : config'[i] = DefaultConfig
      /\ \A i \in DOMAIN config :
           /\ i \in DOMAIN config'
           /\ config'[i] # config[i] =>
                \E p \in Procs, f \in ConfigForms : save_config_commit(p, f)
    ]_vars

\* C12 witness: two requests found the table empty; one inserted the row,
\* the other failed on the primary key, and the one row holds the defaults
C12_Witness ==
  /\ \E p \in Procs, q \in Procs :
       /\ procs[p].pc = "returned" /\ procs[p].cfg = Some(DefaultConfig)
       /\ procs[q].pc = "failed" /\ procs[q].cfg = None
  /\ DOMAIN config = {1}
  /\ config[1] = DefaultConfig

\* the four values of the line of sale id
PerSale(id) ==
  LET v == vendas[id]
      revenue == v.preco_unitario_cent * v.quantidade
      fees == calc_taxas(revenue) + config[1].taxa_fixa_cent * v.quantidade
      cost == custo_para_venda(v) * v.quantidade
  IN  [receita |-> revenue, taxas |-> fees, custo |-> cost,
       lucro |-> revenue - fees - cost]

\* the sums of the four values over the sales ids
RECURSIVE SumSales(_)
SumSales(ids) ==
  IF ids = {} THEN [receita |-> 0, taxas |-> 0, custo |-> 0, lucro |-> 0]
  ELSE LET i == CHOOSE j \in ids : TRUE
           rest == SumSales(ids \ {i})
           one == PerSale(i)
       IN  [receita |-> rest.receita + one.receita,
            taxas |-> rest.taxas + one.taxas,
            custo |-> rest.custo + one.custo,
            lucro |-> rest.lucro + one.lucro]

\* the sales dated from start, the first day of a month, up to but not
\* including the first day of the following month
SalesOfMonth(start) ==
  LET endExclusive == IF start[2] = 12 THEN <<start[1] + 1, 1, 1>>
                      ELSE <<start[1], start[2] + 1, 1>>
  IN  {i \in DOMAIN vendas :
         /\ ~DateLess(vendas[i].data, start)
         /\ DateLess(vendas[i].data, endExclusive)}

\* C13: the dashboard of a month has one line for each sale dated in
\* [first day of the month, first day of the following month) and for no
\* other, its four totals are the sums of the revenue, fees, cost and
\* profit of those sales, and with no such sale the totals are 0 and there
\* is no line.
C13_MonthAggregation ==
  DashboardRendered =>
    LET d == resp.dash
        ids == SalesOfMonth(d.mes)
        sums == SumSales(ids)
    IN  /\ {d.linhas[k].venda.id : k \in 1..Len(d.linhas)} = ids
        /\ Len(d.linhas) = Cardinality(ids)
        /\ \A k \in 1..Len(d.linhas) :
             /\ d.linhas[k].receita = PerSale(d.linhas[k].venda.id).receita
             /\ d.linhas[k].taxas = PerSale(d.linhas[k].venda.id).taxas
             /\ d.linhas[k].lucro = PerSale(d.linhas[k].venda.id).lucro
        /\ d.tot_receita = sums.receita
        /\ d.tot_taxas = sums.taxas
        /\ d.tot_custo = sums.custo
        /\ d.tot_lucro = sums.lucro
        /\ ids = {} => ( /\ d.linhas = <<>> /\ d.tot_receita = 0
                         /\ d.tot_taxas = 0 /\ d.tot_custo = 0
                         /\ d.tot_lucro = 0 )

\* C13 witness: the dashboard of December 2023 with the sale of 31 December
\* as its only line while a sale of 1 January 2024 is stored
C13_Witness ==
  /\ DashboardRendered
  /\ resp.dash.mes = <<2023, 12, 1>>
  /\ Len(resp.dash.linhas) = 1
  /\ resp.dash.linhas[1].venda.data = <<2023, 12, 31>>
  /\ resp.dash.tot_custo = 7180
  /\ \E i \in DOMAIN vendas : vendas[i].data = <<2024, 1, 1>>

\* the table after the step is the table before it without row id
RowRemoved(before, after, id) ==
  /\ DOMAIN after = DOMAIN before \ {id}
  /\ \A i \in DOMAIN after : after[i] = before[i]

\* C14: delete and update of an id the table does not hold answer 404 and
\* change no ledger; delete of an id the table holds removes that row and
\* nothing else, so that the id is then absent and deleting it again
\* answers 404.
C14_NotFoundAndDelete ==
  [][ /\ \A id \in Ids :
           ( /\ resp'.op = "delete_compra" /\ resp'.id = id
             /\ delete_compra(id) ) =>
             IF id \in DOMAIN compras
               THEN /\ RowRemoved(compras, compras', id)
                    /\ UNCHANGED <<vendas, boletos>>
               ELSE resp'.status = 404 /\ UNCHANGED <<compras, vendas, boletos>>
      /\ \A id \in Ids :
           ( /\ resp'.op = "delete_venda" /\ resp'.id = id
             /\ delete_venda(id) ) =>
             IF id \in DOMAIN vendas
               THEN /\ RowRemoved(vendas, vendas', id)
                    /\ UNCHANGED <<compras, boletos>>
               ELSE resp'.status = 404 /\ UNCHANGED <<compras, vendas, boletos>>
      /\ \A id \in Ids :
           ( /\ resp'.op = "delete_boleto" /\ resp'.id = id
             /\ delete_boleto(id) ) =>
             IF id \in DOMAIN boletos
               THEN /\ RowRemoved(boletos, boletos', id)
                    /\ UNCHANGED <<compras, vendas>>
               ELSE resp'.status = 404 /\ UNCHANGED <<compras, vendas, boletos>>
      /\ \A id \in Ids, f \in CompraForms :
           ( /\ id \notin DOMAIN compras
             /\ resp'.op = "update_compra" /\ resp'.id = id
             /\ update_compra(id, f) ) =>
             resp'.status = 404 /\ UNCHANGED <<compras, vendas, boletos>>
      /\ \A id \in Ids, f \in VendaForms :
           ( /\ id \notin DOMAIN vendas
             /\ resp'.op = "update_venda" /\ resp'.id = id
             /\ update_venda(id, f) ) =>
             resp'.status = 404 /\ UNCHANGED <<compras, vendas, boletos>>
      /\ \A id \in Ids, f \in BoletoForms :
           ( /\ id \notin DOMAIN boletos
             /\ resp'.op = "update_boleto" /\ resp'.id = id
             /\ update_boleto(id, f) ) =>
             resp'.status = 404 /\ UNCHANGED <<compras, vendas, boletos>>
    ]_vars

\* C14 witness: one row was ever inserted, no table holds a row, and the
\* last request, a delete of id 1, was answered 404
C14_Witness ==
  /\ clock = 1
  /\ compras = <<>> /\ vendas = <<>> /\ boletos = <<>>
  /\ resp.op \in {"delete_compra", "delete_venda", "delete_boleto"}
  /\ resp.id = 1
  /\ resp.status = 404

\* rows holds every row of the table once, as stored
ListsAll(table, rows) ==
  /\ {rows[k].id : k \in 1..Len(rows)} = DOMAIN table
  /\ Len(rows) = Cardinality(DOMAIN table)
  /\ \A k \in 1..Len(rows) : rows[k] = [id |-> rows[k].id] @@ table[rows[k].id]

\* rows is in order of date descending, then creation time descending
ByDataDesc(rows) ==
  \A k \in 1..(Len(rows) - 1) :
    \/ DateLess(rows[k + 1].data, rows[k].data)
    \/ /\ rows[k + 1].data = rows[k].data
       /\ rows[k + 1].created_at <= rows[k].created_at

\* rows is in order of due date descending, then creation time descending
ByVencimentoDesc(rows) ==
  \A k \in 1..(Len(rows) - 1) :
    \/ DateLess(rows[k + 1].vencimento, rows[k].vencimento)
    \/ /\ rows[k + 1].vencimento = rows[k].vencimento
       /\ rows[k + 1].created_at <= rows[k].created_at

\* C15 as stated: each of the three lists returns all stored rows by date
\* descending, then creation time descending, the date of an invoice being
\* its due date.
C15_ListOrderByDate ==
  /\ resp.op = "compras" => ListsAll(compras, resp.rows) /\ ByDataDesc(resp.rows)
  /\ resp.op = "vendas" => ListsAll(vendas, resp.rows) /\ ByDataDesc(resp.rows)
  /\ resp.op = "index" =>
       ListsAll(boletos, resp.rows) /\ ByVencimentoDesc(resp.rows)

\* C16: for every amount c, parse_valor_to_centavos(moeda(c)) = c.
C16_MoedaRoundTrip ==
  ret.formatted => ret.parsed = ret.centavos

\* the text is the header row followed by n rows, the rows of a text being
\* what its line breaks separate
HeaderAndRows(text, header, n) ==
  /\ Len(text) >= Len(header)
  /\ SubSeq(text, 1, Len(header)) = header
  /\ Len(text) > Len(header) => text[Len(header) + 1] = "\n"
  /\ Count(text, "\n") = n

\* C17: each CSV export is the header row followed by exactly one row for
\* each stored row of its table; with an empty table it is the header row.
C17_CsvRowCount ==
  /\ resp.op = "export_boletos_csv" =>
       HeaderAndRows(resp.body, HeaderBoletos, Cardinality(DOMAIN boletos))
  /\ resp.op = "export_compras_csv" =>
       HeaderAndRows(resp.body, HeaderCompras, Cardinality(DOMAIN compras))
  /\ resp.op = "export_vendas_csv" =>
       HeaderAndRows(resp.body, HeaderVendas, Cardinality(DOMAIN vendas))

\* the sum of the cost values of the lines
RECURSIVE SumLineCusto(_)
SumLineCusto(linhas) ==
  IF linhas = <<>> THEN 0
  ELSE Head(linhas).custo + SumLineCusto(Tail(linhas))

\* C18: each line of the dashboard carries as its cost the unit cost of the
\* sale times its quantity, and the cost values of the lines add up to the
\* total cost of the dashboard.
C18_LineCostTimesQuantity ==
  DashboardRendered =>
    /\ \A k \in 1..Len(resp.dash.linhas) :
         LET l == resp.dash.linhas[k]
         IN  l.custo = custo_para_venda(l.venda) * l.venda.quantidade
    /\ SumLineCusto(resp.dash.linhas) = resp.dash.tot_custo

\* the row template was rendered for a stored sale
RowRendered == resp.op = "venda_row" /\ resp.status = 200

\* C19: the profit _venda_row.html computes for a sale equals the profit
\* the loop of dashboard() computes for that sale in the same state, and so
\* do its revenue and fees; the row's cost is the unit cost the dashboard
\* resolves for the sale.
C19_RowProfitIsDashboardProfit ==
  RowRendered =>
    LET row == resp.linha[1]
        l == LoopBody(NoDash, resp.id).linhas[1]
    IN  /\ row.lucro = l.lucro
        /\ row.receita = l.receita
        /\ row.taxas = l.taxas
        /\ row.custo = l.custo

\* C19 witness: the row of a sale of 2 units without override whose unit
\* cost comes from a purchase, under a fixed fee and rates that are not the
\* defaults, shows a profit
C19_Witness ==
  /\ RowRendered
  /\ vendas[resp.id].quantidade = 2
  /\ vendas[resp.id].custo_unitario_override_cent = None
  /\ resp.linha[1].custo = 1000
  /\ config[1] # DefaultConfig
  /\ resp.linha[1].lucro > 0

\* C20: posting the edit form of a sale with the values it was rendered
\* with answers 200 and leaves the sale as it was: same date, and an
\* absent cost override still absent.
C20_EditFormResubmitUnchanged ==
  [][ ( /\ resp.op = "edit_venda"
        /\ resp.status = 200
        /\ resp'.op = "update_venda"
        /\ update_venda(resp.id, resp.form[1]) )
      => ( /\ resp'.status = 200
           /\ vendas'[resp.id].data = vendas[resp.id].data
           /\ vendas'[resp.id].custo_unitario_override_cent =
                vendas[resp.id].custo_unitario_override_cent
           /\ vendas' = vendas ) ]_vars

====
